---- MODULE Spec2Model ----
(***************************************************************************)
(* Persistence store of the trade journal (src/src/db/index.ts) and the    *)
(* export / import handlers of the settings page (src/unnamed/part_001).   *)
(*                                                                         *)
(* The store is a Dexie database with three tables whose primary key is    *)
(* the inbound property `id`.  A table is modelled as the set of its rows; *)
(* the primary-key constraint is enforced by the operations (add / bulkAdd *)
(* reject an existing key), not by the representation.                     *)
(***************************************************************************)
EXTENDS Integers, Sequences, FiniteSets, TLC

\* ------------------------------------------------------------------ bounds
MaxId == 2          \* how many distinct UUIDs crypto.randomUUID() can yield
MaxTime == 1        \* last instant of the wall clock
MaxOps == 4         \* how many operations one session performs

Ids == 1..MaxId     \* UUIDs; the integer order stands for the string order

\* ------------------------------------------------------- program constants
DbName == "ForexTraderProgressTracker"
DbVersion == 3

\* -------------------------------------------------------------- field data
PairValues == {"EUR/USD", "USD/JPY"}
NotesValues == {"n1", "n2"}
ReasonValues == {"r1"}
DescriptionValues == {"d1", "d2"}

\* The fields a caller supplies for each kind (everything except id and the
\* timestamps), with the values each may take.
TradeFields == [pair |-> PairValues, notes |-> NotesValues]
MissedTradeFields == [pair |-> PairValues, reason |-> ReasonValues]
BacktestFields == [description |-> DescriptionValues]

\* All total inputs of a kind: Omit<Kind, 'id' | 'createdAt' | 'updatedAt'>.
Inputs(fields) == {r \in [DOMAIN fields -> UNION {fields[f] : f \in DOMAIN fields}] :
                     \A f \in DOMAIN fields : r[f] \in fields[f]}

\* All patches of a kind: Partial<Omit<Kind, 'id' | 'createdAt' | 'updatedAt'>>.
Patches(fields) == UNION {{p \in [F -> UNION {fields[f] : f \in F}] :
                             \A f \in F : p[f] \in fields[f]} : F \in SUBSET DOMAIN fields}

\* ---------------------------------------------------------------- Dexie tables
Keys(table) == {r.id : r \in table}

\* Table.get(key): the row or undefined.
Undefined == [undefined |-> TRUE]
TableGet(table, key) ==
    IF \E r \in table : r.id = key THEN CHOOSE r \in table : r.id = key ELSE Undefined

\* A table whose add resolves to the number the key generator of '++id' would
\* have produced, not to the inbound id of the row.
TableAddAutoKey(table, row) ==
    IF row.id \in Keys(table)
    THEN [err |-> "ConstraintError", table |-> table, key |-> 0]
    ELSE [err |-> "none", table |-> table \cup {row}, key |-> Cardinality(table) + 1]

\* Table.add(row): rejects with ConstraintError when the key exists, else
\* stores the row and resolves to its primary key.
TableAdd(table, row) ==
    IF row.id \in Keys(table)
    THEN [err |-> "ConstraintError", table |-> table, key |-> 0]
    ELSE [err |-> "none", table |-> table \cup {row}, key |-> row.id]

\* A table whose update replaces the row by the changes (a put).
TableUpdateReplace(table, key, changes) ==
    [err |-> "none",
     table |-> {IF r.id = key THEN changes @@ [id |-> key] ELSE r : r \in table},
     count |-> IF key \in Keys(table) THEN 1 ELSE 0]

\* Table.update(key, changes): sets the given key paths on the row with that
\* key; resolves to the number of rows updated (0 when the key is absent).
\* It never rejects for a missing key.
TableUpdate(table, key, changes) ==
    [err |-> "none",
     table |-> {IF r.id = key THEN changes @@ r ELSE r : r \in table},
     count |-> IF key \in Keys(table) THEN 1 ELSE 0]

\* A table whose delete rejects when there is nothing to remove.
TableDeleteStrict(table, key) ==
    IF key \in Keys(table)
    THEN [err |-> "none", table |-> {r \in table : r.id # key}]
    ELSE [err |-> "NotFound", table |-> table]

\* Table.delete(key): removes the row if present; resolves either way.
TableDelete(table, key) ==
    [err |-> "none", table |-> {r \in table : r.id # key}]

\* A table whose bulkAdd stores the rows without looking at the keys in use.
TableBulkAddUnchecked(table, rows) ==
    [err |-> "none", table |-> table \cup rows]

\* Table.bulkAdd(rows): adds every row; any existing key makes it reject.
TableBulkAdd(table, rows) ==
    IF Keys(table) \cap Keys(rows) # {}
    THEN [err |-> "ConstraintError", table |-> table \cup {r \in rows : r.id \notin Keys(table)}]
    ELSE [err |-> "none", table |-> table \cup rows]

\* Table.toArray(): the rows in primary-key order.
RECURSIVE ToArray(_)
ToArray(table) ==
    IF table = {} THEN <<>>
    ELSE LET first == CHOOSE r \in table : \A s \in table : r.id <= s.id
         IN  <<first>> \o ToArray(table \ {first})

\* The index read without reverse(): ascending by (index, primary key).
RECURSIVE OrderByCreatedAt(_)
OrderByCreatedAt(table) ==
    IF table = {} THEN <<>>
    ELSE LET first == CHOOSE r \in table : \A s \in table :
                         \/ r.createdAt < s.createdAt
                         \/ r.createdAt = s.createdAt /\ r.id <= s.id
         IN  <<first>> \o OrderByCreatedAt(table \ {first})

\* Table.orderBy(index).reverse().toArray(): descending by (index, primary key).
RECURSIVE OrderByCreatedAtReverse(_)
OrderByCreatedAtReverse(table) ==
    IF table = {} THEN <<>>
    ELSE LET first == CHOOSE r \in table : \A s \in table :
                         \/ r.createdAt > s.createdAt
                         \/ r.createdAt = s.createdAt /\ r.id >= s.id
         IN  <<first>> \o OrderByCreatedAtReverse(table \ {first})

\* ---------------------------------------------------------------- state
VARIABLES
    trades,         \* db.trades
    backtests,      \* db.backtests
    missedTrades,   \* db.missedTrades
    now,            \* the wall clock read by new Date()
    issued,         \* the UUIDs crypto.randomUUID() has returned so far
    addon,          \* whether the export/import addon of Dexie has been loaded
    blob,           \* the backup file the last export produced
    ops,            \* how many operations have run
    last,           \* the last operation: what was called and how it ended
    input,          \* the trades array handed to the statistics functions
    stats,          \* what calculateStats returned or threw
    today,          \* the date new Date() yields inside generateChartData
    chart,          \* what generateChartData returned
    args,           \* the arguments a formatter is called with
    result,         \* what the formatter returned
    formData,       \* the formData state of the trade form
    page,           \* the route shown, the id it names, and the alerts raised
    flows,          \* the calls of async handlers suspended at an await
    mediaRecorder,  \* the mediaRecorder state of the form
    isRecording,    \* the isRecording state of the form
    recorders       \* the MediaRecorder objects recordAudio has created

vars == <<trades, backtests, missedTrades, now, issued, addon, blob, ops, last,
          input, stats, today, chart, args, result,
          formData, page, flows, mediaRecorder, isRecording, recorders>>
dashboard == <<input, stats, today, chart>>
formatters == <<args, result>>
audio == <<mediaRecorder, isRecording, recorders>>
forms == <<formData, page, flows, audio>>
\* The state of the components a specification leaves alone.
aside == <<formatters, forms>>
store == <<trades, backtests, missedTrades>>

NoFile == [formatName |-> "none"]
NotCalled == [called |-> FALSE]
NoDate == [year |-> 0, month |-> 0, day |-> 0]
NoArgs == [called |-> FALSE]
Op(op, id, err) == [op |-> op, id |-> id, err |-> err]

IdleFormatters == args = NoArgs /\ result = NotCalled

\* A string typed into a numeric input: empty, or a decimal literal n/d
\* (d = 0 is the text 'NaN').
Empty == [empty |-> TRUE, n |-> 0, d |-> 1]
Text(n, d) == [empty |-> FALSE, n |-> n, d |-> d]
Null == [null |-> TRUE]

\* useState of the trade form (TradeForm.tsx:56-77): every numeric field is
\* the empty string, the media lists are empty, no timeframe screenshot
\* (<<>> stands for a key that is not set).
InitialFormData ==
    [entryPrice |-> Empty, stopLoss |-> Empty, takeProfit |-> Empty, lotSize |-> Empty,
     stopLossAmount |-> Empty, breakEvenAmount |-> Empty, notes |-> "",
     media |-> [before |-> <<>>, after |-> <<>>, audioDescription |-> <<>>], timeframeScreenshots |-> [daily |-> <<>>]]

Page(route, id) == [route |-> route, id |-> id, alerts |-> <<>>]

IdleAudio == mediaRecorder = Null /\ isRecording = FALSE /\ recorders = {}
IdleForms == formData = InitialFormData /\ page = Page("/", 0) /\ flows = {} /\ IdleAudio
AsideIdle == IdleFormatters /\ IdleForms

Init ==
    /\ trades = {}
    /\ backtests = {}
    /\ missedTrades = {}
    /\ now = 0
    /\ issued = {}
    /\ addon \in BOOLEAN
    /\ blob = NoFile
    /\ ops = 0
    /\ last = Op("init", 0, "none")
    /\ input = <<>>
    /\ stats = NotCalled
    /\ today = NoDate
    /\ chart = NotCalled
    /\ AsideIdle

\* The store before its first operation, and the dashboard before it loads.
IdleStore ==
    /\ trades = {}
    /\ backtests = {}
    /\ missedTrades = {}
    /\ now = 0
    /\ issued = {}
    /\ addon = TRUE
    /\ blob = NoFile
    /\ ops = 0
    /\ last = Op("init", 0, "none")

IdleDashboard == input = <<>> /\ stats = NotCalled /\ today = NoDate /\ chart = NotCalled

\* One more operation of the session.
Count == ops < MaxOps /\ ops' = ops + 1 /\ UNCHANGED <<dashboard, aside>>

\* Time passes.
Tick ==
    /\ Count
    /\ now < MaxTime
    /\ now' = now + 1
    /\ UNCHANGED <<trades, backtests, missedTrades, issued, addon, blob, last>>

\* ---------------------------------------------------------------- trades
addTrade(trade, uuid) ==
    LET res == TableAdd(trades, trade @@ [id |-> uuid, createdAt |-> now, updatedAt |-> now])
    IN  /\ trades' = res.table
        /\ issued' = issued \cup {uuid}
        /\ last' = Op("addTrade", res.key, res.err)
        /\ UNCHANGED <<backtests, missedTrades, now, addon, blob>>

AddTrade == Count /\ \E trade \in Inputs(TradeFields), uuid \in Ids \ issued : addTrade(trade, uuid)

\* An update that stores the changes under the id when no row has it.
updateTradePut(id, trade) ==
    LET res == TableUpdate(trades, id, trade @@ [updatedAt |-> now])
    IN  /\ trades' = IF id \in Keys(trades) THEN res.table
                      ELSE trades \cup {trade @@ [id |-> id, createdAt |-> now, updatedAt |-> now]}
        /\ last' = Op("updateTrade", id, res.err)
        /\ UNCHANGED <<backtests, missedTrades, now, issued, addon, blob>>

updateTrade(id, trade) ==
    LET res == TableUpdate(trades, id, trade @@ [updatedAt |-> now])
    IN  /\ trades' = res.table
        /\ last' = Op("updateTrade", id, res.err)
        /\ UNCHANGED <<backtests, missedTrades, now, issued, addon, blob>>

UpdateTrade == Count /\ \E id \in Ids, trade \in Patches(TradeFields) : updateTrade(id, trade)

deleteTrade(id) ==
    LET res == TableDelete(trades, id)
    IN  /\ trades' = res.table
        /\ last' = Op("deleteTrade", id, res.err)
        /\ UNCHANGED <<backtests, missedTrades, now, issued, addon, blob>>

DeleteTrade == Count /\ \E id \in Ids : deleteTrade(id)

getTrade(id) == TableGet(trades, id)

getAllTrades == ToArray(trades)

\* ---------------------------------------------------------------- missed trades
addMissedTrade(trade, uuid) ==
    LET res == TableAdd(missedTrades, trade @@ [id |-> uuid, createdAt |-> now, updatedAt |-> now])
    IN  /\ missedTrades' = res.table
        /\ issued' = issued \cup {uuid}
        /\ last' = Op("addMissedTrade", res.key, res.err)
        /\ UNCHANGED <<trades, backtests, now, addon, blob>>

AddMissedTrade ==
    Count /\ \E trade \in Inputs(MissedTradeFields), uuid \in Ids \ issued : addMissedTrade(trade, uuid)

updateMissedTrade(id, trade) ==
    LET res == TableUpdate(missedTrades, id, trade @@ [updatedAt |-> now])
    IN  /\ missedTrades' = res.table
        /\ last' = Op("updateMissedTrade", id, res.err)
        /\ UNCHANGED <<trades, backtests, now, issued, addon, blob>>

UpdateMissedTrade ==
    Count /\ \E id \in Ids, trade \in Patches(MissedTradeFields) : updateMissedTrade(id, trade)

deleteMissedTrade(id) ==
    LET res == TableDelete(missedTrades, id)
    IN  /\ missedTrades' = res.table
        /\ last' = Op("deleteMissedTrade", id, res.err)
        /\ UNCHANGED <<trades, backtests, now, issued, addon, blob>>

DeleteMissedTrade == Count /\ \E id \in Ids : deleteMissedTrade(id)

getMissedTrade(id) == TableGet(missedTrades, id)

getAllMissedTrades == ToArray(missedTrades)

\* ---------------------------------------------------------------- backtests
addBacktest(backtest, uuid) ==
    LET res == TableAdd(backtests, backtest @@ [id |-> uuid, createdAt |-> now])
    IN  /\ backtests' = res.table
        /\ issued' = issued \cup {uuid}
        /\ last' = Op("addBacktest", res.key, res.err)
        /\ UNCHANGED <<trades, missedTrades, now, addon, blob>>

AddBacktest ==
    Count /\ \E backtest \in Inputs(BacktestFields), uuid \in Ids \ issued : addBacktest(backtest, uuid)

updateBacktest(id, backtest) ==
    LET res == TableUpdate(backtests, id, backtest)
    IN  /\ backtests' = res.table
        /\ last' = Op("updateBacktest", id, res.err)
        /\ UNCHANGED <<trades, missedTrades, now, issued, addon, blob>>

UpdateBacktest ==
    Count /\ \E id \in Ids, backtest \in Patches(BacktestFields) : updateBacktest(id, backtest)

deleteBacktest(id) ==
    LET res == TableDelete(backtests, id)
    IN  /\ backtests' = res.table
        /\ last' = Op("deleteBacktest", id, res.err)
        /\ UNCHANGED <<trades, missedTrades, now, issued, addon, blob>>

DeleteBacktest == Count /\ \E id \in Ids : deleteBacktest(id)

getBacktest(id) == TableGet(backtests, id)

getAllBacktests == OrderByCreatedAtReverse(backtests)

\* ---------------------------------------------------------------- export / import
\* The export file keeps a Date as a tagged number and revives it on import.
DateFields == {"createdAt", "updatedAt"}
EncodeRow(r) == [f \in DOMAIN r |-> IF f \in DateFields THEN <<"Date", r[f]>> ELSE r[f]]
DecodeRow(r) == [f \in DOMAIN r |-> IF f \in DateFields THEN r[f][2] ELSE r[f]]

\* db.export() of the addon: one document with the format tag, the database
\* name and version, and the rows of every table.
exportDB ==
    [formatName |-> "dexie",
     databaseName |-> DbName,
     databaseVersion |-> DbVersion,
     trades |-> {EncodeRow(r) : r \in trades},
     backtests |-> {EncodeRow(r) : r \in backtests},
     missedTrades |-> {EncodeRow(r) : r \in missedTrades}]

\* An import that accepts a file whatever database name and version it names.
importIntoAcceptDiff(file) ==
    LET unchanged(err) == [err |-> err, trades |-> trades, backtests |-> backtests,
                           missedTrades |-> missedTrades]
    IN  IF file.formatName # "dexie" THEN unchanged("NotDexieExport")
        ELSE LET t == TableBulkAdd(trades, {DecodeRow(r) : r \in file.trades})
                 b == TableBulkAdd(backtests, {DecodeRow(r) : r \in file.backtests})
                 m == TableBulkAdd(missedTrades, {DecodeRow(r) : r \in file.missedTrades})
             IN  IF t.err # "none" THEN unchanged(t.err)
                 ELSE IF b.err # "none" THEN unchanged(b.err)
                 ELSE IF m.err # "none" THEN unchanged(m.err)
                 ELSE [err |-> "none", trades |-> t.table, backtests |-> b.table,
                       missedTrades |-> m.table]

\* db.import(blob) of the addon with its default options: the file is checked
\* (format tag, database name, database version), then the
\* rows of each table are bulkAdd-ed inside one read-write transaction over
\* all tables.  No table is cleared and no existing row is overwritten; a
\* rejected bulkAdd aborts the transaction, which rolls every table back.
importInto(file) ==
    LET unchanged(err) == [err |-> err, trades |-> trades, backtests |-> backtests,
                           missedTrades |-> missedTrades]
    IN  IF file.formatName # "dexie" THEN unchanged("NotDexieExport")
        ELSE IF file.databaseName # DbName THEN unchanged("NameDiffers")
        ELSE IF file.databaseVersion # DbVersion THEN unchanged("VersionDiffers")
        ELSE LET t == TableBulkAdd(trades, {DecodeRow(r) : r \in file.trades})
                 b == TableBulkAdd(backtests, {DecodeRow(r) : r \in file.backtests})
                 m == TableBulkAdd(missedTrades, {DecodeRow(r) : r \in file.missedTrades})
             IN  IF t.err # "none" THEN unchanged(t.err)
                 ELSE IF b.err # "none" THEN unchanged(b.err)
                 ELSE IF m.err # "none" THEN unchanged(m.err)
                 ELSE [err |-> "none", trades |-> t.table, backtests |-> b.table,
                       missedTrades |-> m.table]

\* exportDatabase(): db.export() exists only when the addon is loaded.
exportDatabase ==
    IF addon THEN [err |-> "none", blob |-> exportDB] ELSE [err |-> "TypeError", blob |-> blob]

\* importDatabase(blob): db.import(blob) exists only when the addon is loaded.
importDatabase(file) ==
    IF addon THEN importInto(file)
    ELSE [err |-> "TypeError", trades |-> trades, backtests |-> backtests,
          missedTrades |-> missedTrades]

\* The export button: the file is offered for download, or an alert is shown.
handleExport ==
    LET res == exportDatabase
    IN  /\ blob' = res.blob
        /\ last' = Op("export", 0, res.err)
        /\ UNCHANGED <<trades, backtests, missedTrades, now, issued, addon>>

HandleExport == Count /\ handleExport

\* The files the user can pick: something that is no export at all, the last
\* download, and the last download as another schema version or another
\* database would have written it.
NotAnExport == [formatName |-> "garbage"]
UserFiles ==
    [garbage |-> NotAnExport] @@
    (IF blob = NoFile THEN [f \in {} |-> NoFile]
     ELSE [exported |-> blob,
           versionDiff |-> [blob EXCEPT !.databaseVersion = DbVersion - 1],
           nameDiff |-> [blob EXCEPT !.databaseName = "OtherDatabase"]])

\* The file input's change handler: nothing happens unless the user confirms;
\* then the file is imported and success or failure is alerted.
handleImport(name, confirmed) ==
    /\ name \in DOMAIN UserFiles
    /\ IF ~confirmed
       THEN /\ last' = Op("importCancelled", 0, "none")
            /\ UNCHANGED <<trades, backtests, missedTrades, now, issued, addon, blob>>
       ELSE LET res == importDatabase(UserFiles[name])
            IN  /\ trades' = res.trades
                /\ backtests' = res.backtests
                /\ missedTrades' = res.missedTrades
                /\ last' = Op("import", 0, res.err)
                /\ UNCHANGED <<now, issued, addon, blob>>

FileNames == {"garbage", "exported", "versionDiff", "nameDiff"}

HandleImport == Count /\ \E name \in FileNames, confirmed \in BOOLEAN : handleImport(name, confirmed)

Next ==
    \/ Tick
    \/ AddTrade
    \/ UpdateTrade
    \/ DeleteTrade
    \/ AddMissedTrade
    \/ UpdateMissedTrade
    \/ DeleteMissedTrade
    \/ AddBacktest
    \/ UpdateBacktest
    \/ DeleteBacktest
    \/ HandleExport
    \/ HandleImport

Spec == Init /\ [][Next]_vars

\* ================================================================ statistics
\* src/src/utils/statsCalculator.ts.  A JavaScript number is a binary
\* floating-point value: every arithmetic operation yields the exact result
\* rounded to the nearest value with a significand of Precision bits, ties to
\* the even significand (binary64 has 53 bits; the exponent range is never
\* approached here).  A value is held as the fraction num/den in lowest terms;
\* den = 0 stands for the results of a division by zero (0/0 is NaN, +-1/0 is
\* +-Infinity).
MaxTrades == 2      \* longest trades array handed to calculateStats
MaxPermuted == 3    \* longest trades array whose orderings are compared
Precision == 10     \* bits of the significand of a number; 10000 needs 10

EntryTypes == {"2 touch", "3 touch", "v touch", "mechanical", "override", "aft entry"}
TradeOutcomes == {"win", "loss", "breakeven"}

Abs(x) == IF x < 0 THEN -x ELSE x
Sign(x) == IF x = 0 THEN 0 ELSE IF x > 0 THEN 1 ELSE -1

RECURSIVE GCD(_, _)
GCD(a, b) == IF b = 0 THEN a ELSE GCD(b, a % b)

\* The exact fraction n / d in lowest terms with a positive denominator.
Ratio(n, d) ==
    IF d = 0
    THEN [num |-> Sign(n), den |-> 0]
    ELSE LET g == GCD(Abs(n), Abs(d))
         IN  [num |-> (Sign(d) * n) \div g, den |-> Abs(d) \div g]

Number(n) == Ratio(n, 1)
Zero == Number(0)
NaN == Ratio(0, 0)
Finite(q) == q.den # 0

\* n / d * up / down rounded to Precision significant bits, for n, d > 0:
\* scale n / d into [2^(Precision-1), 2^Precision), round it to an integer
\* (ties to even) and scale back.
RECURSIVE RoundScaled(_, _, _, _)
RoundScaled(n, d, up, down) ==
    IF n >= d * 2^Precision THEN RoundScaled(n, 2 * d, 2 * up, down)
    ELSE IF n < d * 2^(Precision - 1) THEN RoundScaled(2 * n, d, up, 2 * down)
    ELSE LET q == n \div d
             r == n % d
             m == IF 2 * r > d \/ (2 * r = d /\ q % 2 = 1) THEN q + 1 ELSE q
         IN  Ratio(m * up, down)

\* The number nearest to the exact value q.
Fl(q) ==
    IF q.den = 0 \/ q.num = 0 THEN q
    ELSE LET r == RoundScaled(Abs(q.num), q.den, 1, 1)
         IN  [num |-> Sign(q.num) * r.num, den |-> r.den]

\* The operators +, -, * and / of JavaScript numbers.  NaN operands give NaN;
\* no operand is ever infinite, every division of calculateStats being guarded.
Add(a, b) == Fl(Ratio(a.num * b.den + b.num * a.den, a.den * b.den))
Sub(a, b) == Fl(Ratio(a.num * b.den - b.num * a.den, a.den * b.den))
Mul(a, b) == Fl(Ratio(a.num * b.num, a.den * b.den))
Div(a, b) == Fl(Ratio(a.num * b.den, a.den * b.num))
Positive(a) == a.num > 0

\* parseFloat of the decimal text of n / d, as the forms store it.
ParseFloat(n, d) == Fl(Ratio(n, d))

\* The keys of the byEntryType literal of calculateStats.
StatsEntryTypes == {"2 touch", "3 touch", "v touch", "mechanical", "override"}

ZeroRow == [total |-> 0, wins |-> 0, losses |-> 0, breakeven |-> 0, winRate |-> Zero]

\* What a caller sees when calculateStats throws instead of returning.
Thrown == [threw |-> TRUE, error |-> "TypeError"]

\* const stats = {...}: the zeroed statistics object.
InitialStats(tradeList) ==
    [threw |-> FALSE,
     totalTrades |-> Len(tradeList),
     wins |-> 0, losses |-> 0, breakeven |-> 0,
     winRate |-> Zero, averageRR |-> Zero, profitFactor |-> Zero,
     byEntryType |-> [t \in StatsEntryTypes |-> ZeroRow]]

\* One pass of the body of trades.forEach: the overall outcome counts and
\* sums, then the row of the trade's entry type.  Reading a row the table does
\* not have yields undefined, and `entryTypeStats.total += 1` then throws.
ForEachTrade(acc, trade) ==
    IF acc.threw THEN acc
    ELSE LET st == acc.stats
             counted ==
                [st EXCEPT !.wins = @ + (IF trade.outcome = "win" THEN 1 ELSE 0),
                           !.losses = @ + (IF trade.outcome = "loss" THEN 1 ELSE 0),
                           !.breakeven = @ + (IF trade.outcome = "breakeven" THEN 1 ELSE 0)]
             profit == IF trade.outcome = "win"
                       THEN Add(acc.totalProfit,
                                 Mul(Sub(trade.exitPrice, trade.entryPrice), trade.lotSize))
                       ELSE acc.totalProfit
             loss == IF trade.outcome = "loss"
                     THEN Add(acc.totalLoss,
                               Mul(Sub(trade.entryPrice, trade.exitPrice), trade.lotSize))
                     ELSE acc.totalLoss
         IN  IF trade.entryType \notin DOMAIN st.byEntryType
             THEN [acc EXCEPT !.threw = TRUE]
             ELSE LET row == st.byEntryType[trade.entryType]
                      newRow ==
                         [row EXCEPT !.total = @ + 1,
                                     !.wins = @ + (IF trade.outcome = "win" THEN 1 ELSE 0),
                                     !.losses = @ + (IF trade.outcome = "loss" THEN 1 ELSE 0),
                                     !.breakeven = @ + (IF trade.outcome = "breakeven" THEN 1 ELSE 0)]
                  IN  [threw |-> FALSE,
                       stats |-> [counted EXCEPT !.byEntryType[trade.entryType] = newRow],
                       totalRR |-> Add(acc.totalRR, trade.riskRewardRatio),
                       totalProfit |-> profit,
                       totalLoss |-> loss]

RECURSIVE ForEach(_, _, _)
ForEach(acc, tradeList, i) ==
    IF i > Len(tradeList) THEN acc
    ELSE ForEach(ForEachTrade(acc, tradeList[i]), tradeList, i + 1)

\* calculateStats(trades): the value returned, or Thrown.
calculateStats(tradeList) ==
    IF Len(tradeList) = 0 THEN InitialStats(tradeList)
    ELSE LET acc == ForEach([threw |-> FALSE, stats |-> InitialStats(tradeList),
                             totalRR |-> Zero, totalProfit |-> Zero, totalLoss |-> Zero],
                            tradeList, 1)
             st == acc.stats
         IN  IF acc.threw THEN Thrown
             ELSE [st EXCEPT
                     !.winRate = Mul(Div(Number(st.wins), Number(st.totalTrades)), Number(100)),
                     !.averageRR = Div(acc.totalRR, Number(st.totalTrades)),
                     !.profitFactor = IF Positive(acc.totalLoss)
                                      THEN Div(acc.totalProfit, acc.totalLoss) ELSE Zero,
                     !.byEntryType = [t \in DOMAIN st.byEntryType |->
                         IF st.byEntryType[t].total > 0
                         THEN [st.byEntryType[t] EXCEPT
                                 !.winRate = Mul(Div(Number(st.byEntryType[t].wins),
                                                     Number(st.byEntryType[t].total)),
                                                 Number(100))]
                         ELSE st.byEntryType[t]]]

\* The trades the statistics are computed from.  The direction is the one that
\* agrees with the outcome and the prices (a winning trade that exits below its
\* entry is a sell); calculateStats does not read it.  lotSize is the number
\* the forms store; a trade shaped as the Trade interface declares has a
\* volume and no lotSize, and the undefined that calculateStats then reads is
\* NaN in arithmetic.
StatsTrade(entryType, outcome, entryPrice, exitPrice, lotSize, rr) ==
    [entryType |-> entryType, outcome |-> outcome,
     direction |-> IF (outcome = "loss") = (exitPrice < entryPrice) THEN "buy" ELSE "sell",
     entryPrice |-> Number(entryPrice), exitPrice |-> Number(exitPrice),
     lotSize |-> lotSize, riskRewardRatio |-> rr]

\* Trades of every entry type and outcome and of two risk:reward ratios.
CountingTrades ==
    {StatsTrade(t, o, 2, 3, Number(1), Number(rr)) : t \in EntryTypes, o \in TradeOutcomes, rr \in {1, 2}}

\* Trades of two entry types and every outcome that exit below, at or above
\* their entry, in two sizes or without a lotSize.
ProfitTrades ==
    {StatsTrade(t, o, 2, exit, lot, Number(1)) :
        t \in {"2 touch", "aft entry"}, o \in TradeOutcomes,
        exit \in {1, 2, 3}, lot \in {Number(1), Number(2), NaN}}

\* Trades of two entry types and every outcome whose risk:reward ratios were
\* typed as 0.1, 0.2 and 0.4.
OrderTrades ==
    {StatsTrade(t, o, 2, 3, Number(1), ParseFloat(rr, 10)) :
        t \in {"2 touch", "aft entry"}, o \in TradeOutcomes, rr \in {1, 2, 4}}

ListsUpTo(S, max) == UNION {[1..n -> S] : n \in 0..max}
Lists(S) == ListsUpTo(S, MaxTrades)

\* The dashboard computes the statistics of the trades it loaded.
CalculateStats ==
    /\ stats = NotCalled
    /\ stats' = calculateStats(input)
    /\ UNCHANGED <<trades, backtests, missedTrades, now, issued, addon, blob, ops, last,
                   input, today, chart, aside>>

InitDashboard ==
    /\ trades = {}
    /\ backtests = {}
    /\ missedTrades = {}
    /\ now = 0
    /\ issued = {}
    /\ addon = TRUE
    /\ blob = NoFile
    /\ ops = 0
    /\ last = Op("init", 0, "none")
    /\ stats = NotCalled
    /\ chart = NotCalled
    /\ AsideIdle

InitStats == InitDashboard /\ today = NoDate /\ input \in Lists(CountingTrades)
InitProfit == InitDashboard /\ today = NoDate /\ input \in Lists(ProfitTrades)
InitOrder ==
    InitDashboard /\ today = NoDate /\ input \in ListsUpTo(OrderTrades, MaxPermuted)

NextStats == CalculateStats

SpecStats == InitStats /\ [][NextStats]_vars
SpecProfit == InitProfit /\ [][NextStats]_vars
SpecOrder == InitOrder /\ [][NextStats]_vars

\* -------------------------------------------------------------- chart data
\* generateChartData of src/src/utils/statsCalculator.ts.  A date is a local
\* calendar date with the month numbered 0..11 as Date.getMonth numbers it.
MaxChartTrades == 2     \* longest trades array handed to generateChartData

Years == {2023, 2024}
MonthNames == <<"Jan", "Feb", "Mar", "Apr", "May", "Jun",
                "Jul", "Aug", "Sep", "Oct", "Nov", "Dec">>

IsLeapYear(y) == y % 4 = 0 /\ (y % 100 # 0 \/ y % 400 = 0)

DaysInMonth(y, m) ==
    IF m = 1 THEN (IF IsLeapYear(y) THEN 29 ELSE 28)
    ELSE IF m \in {3, 5, 8, 10} THEN 30 ELSE 31

Dates == {d \in [year : Years, month : 0..11, day : 1..31] :
            d.day <= DaysInMonth(d.year, d.month)}

\* Date.prototype.setMonth(m) for m in -11..11: a negative month counts back
\* from December of the year before, the day of the month is kept, and a day
\* the month does not have rolls over into the following month.
setMonth(date, m) ==
    LET y == IF m < 0 THEN date.year - 1 ELSE date.year
        mo == IF m < 0 THEN m + 12 ELSE m
    IN  IF date.day <= DaysInMonth(y, mo)
        THEN [year |-> y, month |-> mo, day |-> date.day]
        ELSE [year |-> y, month |-> mo + 1, day |-> date.day - DaysInMonth(y, mo)]

\* toLocaleDateString('en-US', {month: 'short', year: 'numeric'}): "Mar 2024".
MonthLabel(date) == [month |-> MonthNames[date.month + 1], year |-> date.year]

\* The labels of the current month and the five setMonth calls before it,
\* reversed.
last6Months(date) ==
    [k \in 1..6 |-> MonthLabel(setMonth(date, date.month - (6 - k)))]

\* Object.keys(tradesByEntryType): the entry types of the first i trades in
\* the order of their first occurrence.
RECURSIVE entryTypes(_, _)
entryTypes(tradeList, i) ==
    IF i = 0 THEN <<>>
    ELSE LET before == entryTypes(tradeList, i - 1)
         IN  IF \E j \in 1..Len(before) : before[j] = tradeList[i].entryType
             THEN before
             ELSE Append(before, tradeList[i].entryType)

\* tradesByEntryType[type][outcome] and tradesByMonth[month]?.[outcome] || 0.
tradesByEntryType(tradeList, type, outcome) ==
    Cardinality({i \in 1..Len(tradeList) :
        tradeList[i].entryType = type /\ tradeList[i].outcome = outcome})

tradesByMonthAnyYear(tradeList, month, outcome) ==
    Cardinality({i \in 1..Len(tradeList) :
        /\ MonthLabel(tradeList[i].entryDate).month = month.month
        /\ tradeList[i].outcome = outcome})

tradesByMonth(tradeList, month, outcome) ==
    Cardinality({i \in 1..Len(tradeList) :
        MonthLabel(tradeList[i].entryDate) = month /\ tradeList[i].outcome = outcome})

\* generateChartData(trades) called on the date `date`; datasets[0..2] of each
\* series are its wins, losses and breakeven.
generateChartData(tradeList, date) ==
    LET types == entryTypes(tradeList, Len(tradeList))
        months == last6Months(date)
    IN  [called |-> TRUE,
         byEntryType |->
            [labels |-> types,
             wins |-> [k \in 1..Len(types) |-> tradesByEntryType(tradeList, types[k], "win")],
             losses |-> [k \in 1..Len(types) |-> tradesByEntryType(tradeList, types[k], "loss")],
             breakeven |->
                [k \in 1..Len(types) |-> tradesByEntryType(tradeList, types[k], "breakeven")]],
         byMonth |->
            [labels |-> months,
             wins |-> [k \in 1..6 |-> tradesByMonth(tradeList, months[k], "win")],
             losses |-> [k \in 1..6 |-> tradesByMonth(tradeList, months[k], "loss")],
             breakeven |-> [k \in 1..6 |-> tradesByMonth(tradeList, months[k], "breakeven")]]]

\* Trades of two entry types and every outcome entered on one of two days.
ChartTrades ==
    {StatsTrade(t, o, 2, 3, Number(1), Number(1)) @@ [entryDate |-> d] :
        t \in {"2 touch", "aft entry"}, o \in TradeOutcomes,
        d \in {[year |-> 2023, month |-> 6, day |-> 31],
               [year |-> 2024, month |-> 0, day |-> 15]}}

GenerateChartData ==
    /\ chart = NotCalled
    /\ chart' = generateChartData(input, today)
    /\ UNCHANGED <<trades, backtests, missedTrades, now, issued, addon, blob, ops, last,
                   input, stats, today, aside>>

InitChart ==
    /\ InitDashboard
    /\ today \in Dates
    /\ input \in ListsUpTo(ChartTrades, MaxChartTrades)

NextChart == GenerateChartData

SpecChart == InitChart /\ [][NextChart]_vars

\* The dashboard summarises and charts the same trades; the days it does so on
\* are a mid-month day, month ends whose windows hold rolled-over labels, and
\* a day whose window does not reach the older entry date.
ChartDays ==
    {[year |-> 2024, month |-> 0, day |-> 15], [year |-> 2024, month |-> 0, day |-> 31],
     [year |-> 2023, month |-> 6, day |-> 31], [year |-> 2024, month |-> 2, day |-> 30]}

InitCounts ==
    /\ InitDashboard
    /\ today \in ChartDays
    /\ input \in ListsUpTo(ChartTrades, MaxChartTrades)

NextCounts == CalculateStats \/ GenerateChartData

SpecCounts == InitCounts /\ [][NextCounts]_vars

\* ------------------------------------------------------------- formatters
\* src/unnamed/part_005: two copies of the formatting utilities, whose
\* calculatePips are the same and whose formatPips differ.  A string is the
\* sequence of its characters.
JPY == <<"J", "P", "Y">>

\* String.prototype.includes.
Includes(text, part) ==
    \E i \in 0..(Len(text) - Len(part)) : SubSeq(text, i + 1, i + Len(part)) = part

\* Math.abs.
MathAbs(x) == [x EXCEPT !.num = Abs(@)]

calculatePipsSigned(priceDiff, pair) ==
    IF Includes(pair, JPY)
    THEN Mul(priceDiff, Number(100))
    ELSE Mul(priceDiff, Number(10000))

calculatePips(priceDiff, pair) ==
    IF Includes(pair, JPY)
    THEN Mul(MathAbs(priceDiff), Number(100))
    ELSE Mul(MathAbs(priceDiff), Number(10000))

\* The pair symbols a trade may carry.
PipPairs ==
    {<<"E", "U", "R", "/", "U", "S", "D">>, <<"U", "S", "D", "/", "J", "P", "Y">>,
     <<"J", "P", "Y", "/", "N", "Z", "D">>, <<"u", "s", "d", "j", "p", "y">>,
     <<"J", "P">>, <<>>}

\* Price differences of either sign, as the difference of two typed prices.
PriceDiffs ==
    {ParseFloat(n, d) : n \in {-50, -5, 0, 5, 50}, d \in {10, 100, 1000}}

CalculatePips ==
    /\ result = NotCalled
    /\ args.fn = "calculatePips"
    /\ result' = [called |-> TRUE, value |-> calculatePips(args.priceDiff, args.pair)]
    /\ UNCHANGED <<trades, backtests, missedTrades, now, issued, addon, blob, ops, last,
                   dashboard, args, forms>>

\* x >= n for a number x and an integer n; false for NaN.
AtLeast(x, n) == Finite(x) /\ x.num >= n * x.den

\* Number.prototype.toFixed(digits): the decimal text of x rounded to `digits`
\* decimals, a tie going to the larger magnitude, as its sign, whole part,
\* fraction digits and their number; "NaN" for NaN.
toFixed(x, digits) ==
    IF ~Finite(x) THEN [text |-> "NaN", decimals |-> 0, suffix |-> ""]
    ELSE LET scaled == (2 * Abs(x.num) * 10^digits + x.den) \div (2 * x.den)
         IN  [text |-> "number",
              negative |-> x.num < 0,
              whole |-> scaled \div 10^digits,
              fraction |-> scaled % 10^digits,
              decimals |-> digits,
              suffix |-> ""]

\* The optional pair argument left out; no string has this element.
NoPair == <<"undefined">>

\* pair?.includes('JPY') || false
isJPYPair(pair) == pair # NoPair /\ Includes(pair, JPY)

\* The first copy of formatPips (lines 5-27).
formatPips(pips, pair) ==
    IF isJPYPair(pair)
    THEN IF AtLeast(pips, 1000)
         THEN [toFixed(Div(pips, Number(1000)), 1) EXCEPT !.suffix = "K"]
         ELSE IF AtLeast(pips, 100) THEN toFixed(pips, 0)
         ELSE toFixed(pips, 1)
    ELSE IF AtLeast(pips, 100) THEN toFixed(pips, 0)
         ELSE IF AtLeast(pips, 10) THEN toFixed(pips, 1)
         ELSE toFixed(pips, 1)

\* The second copy of formatPips (lines 67-89).
formatPips2(pips, pair) ==
    IF isJPYPair(pair)
    THEN IF AtLeast(pips, 100) THEN toFixed(pips, 1)
         ELSE IF AtLeast(pips, 10) THEN toFixed(pips, 1)
         ELSE toFixed(pips, 2)
    ELSE IF AtLeast(pips, 100) THEN toFixed(pips, 0)
         ELSE IF AtLeast(pips, 10) THEN toFixed(pips, 1)
         ELSE toFixed(pips, 1)

\* Pips values in every magnitude bucket, a negative one and NaN.
PipsValues ==
    {ParseFloat(n, 10) : n \in {-50, 5, 26, 99, 100, 147, 999, 1000, 1472, 9990,
                                10000, 15000}} \cup {NaN}

FormatPips ==
    /\ result = NotCalled
    /\ args.fn = "formatPips"
    /\ result' = [called |-> TRUE, copy |-> 1, value |-> formatPips(args.pips, args.pair)]
    /\ UNCHANGED <<trades, backtests, missedTrades, now, issued, addon, blob, ops, last,
                   dashboard, args, forms>>

FormatPips2 ==
    /\ result = NotCalled
    /\ args.fn = "formatPips"
    /\ result' = [called |-> TRUE, copy |-> 2, value |-> formatPips2(args.pips, args.pair)]
    /\ UNCHANGED <<trades, backtests, missedTrades, now, issued, addon, blob, ops, last,
                   dashboard, args, forms>>

InitPips ==
    /\ IdleStore
    /\ IdleDashboard
    /\ IdleForms
    /\ result = NotCalled
    /\ args \in {[fn |-> "calculatePips", priceDiff |-> d, pair |-> p] :
                    d \in PriceDiffs, p \in PipPairs}
            \cup {[fn |-> "formatPips", pips |-> v, pair |-> p] :
                    v \in PipsValues, p \in PipPairs \cup {NoPair}}

NextPips == CalculatePips \/ FormatPips \/ FormatPips2

SpecPips == InitPips /\ [][NextPips]_vars

\* -------------------------------------------------------------- trade form
\* TradeForm.tsx and the MT5 import of TradeList.tsx.  A handler that awaits
\* is a member of flows from its call until its continuation has run; the
\* steps between two awaits of one call are one action.
MaxSteps == 4       \* how many events one session of the pages handles
MaxRows == 2        \* most records one multi-record import carries
MaxImports == 1     \* most multi-record imports in flight at once

\* parseFloat of the string of a numeric input: NaN for the empty string.
parseFloat(text) == IF text.empty THEN NaN ELSE ParseFloat(text.n, text.d)

\* Number.prototype.toString: 'NaN', 'Infinity', or the shortest decimal
\* literal that parses back to the number.
toString(x) ==
    IF ~Finite(x) THEN Text(x.num, 0)
    ELSE LET digits(d) == {n \in {(Abs(x.num) * d) \div x.den, (Abs(x.num) * d) \div x.den + 1} :
                             ParseFloat(Sign(x.num) * n, d) = x}
             scales == {d \in {1, 10, 100, 1000} : digits(d) # {}}
         IN  IF scales = {} THEN Text((x.num * 1000) \div x.den, 1000)
             ELSE LET d == CHOOSE s \in scales : \A t \in scales : s <= t
                  IN  Text(Sign(x.num) * (CHOOSE n \in digits(d) : TRUE), d)

\* Whether a number is truthy: neither 0 nor NaN.
Truthy(x) == x.num # 0

\* a || 0
OrZero(x) == IF Truthy(x) THEN x ELSE Zero

\* A risk:reward that divides the risk by the reward.
calculateRiskInverted(fd) ==
    LET entry == parseFloat(fd.entryPrice)
        sl == parseFloat(fd.stopLoss)
        tp == parseFloat(fd.takeProfit)
    IN  IF Truthy(entry) /\ Truthy(sl) /\ Truthy(tp)
        THEN LET risk == MathAbs(Sub(entry, sl))
                 reward == MathAbs(Sub(tp, entry))
             IN  IF Positive(risk) THEN Div(risk, reward) ELSE Zero
        ELSE Zero

\* calculateRiskReward of the form: reward / risk when the three prices are
\* truthy and the risk is positive, else 0.
calculateRiskReward(fd) ==
    LET entry == parseFloat(fd.entryPrice)
        sl == parseFloat(fd.stopLoss)
        tp == parseFloat(fd.takeProfit)
    IN  IF Truthy(entry) /\ Truthy(sl) /\ Truthy(tp)
        THEN LET risk == MathAbs(Sub(entry, sl))
                 reward == MathAbs(Sub(tp, entry))
             IN  IF Positive(risk) THEN Div(reward, risk) ELSE Zero
        ELSE Zero

\* The record handleSubmit hands to the store.
tradeData(fd) ==
    [entryPrice |-> parseFloat(fd.entryPrice),
     stopLoss |-> parseFloat(fd.stopLoss),
     takeProfit |-> parseFloat(fd.takeProfit),
     lotSize |-> parseFloat(fd.lotSize),
     riskRewardRatio |-> calculateRiskReward(fd),
     stopLossAmount |-> parseFloat(fd.stopLossAmount),
     breakEvenAmount |-> IF fd.breakEvenAmount.empty THEN Undefined
                         ELSE parseFloat(fd.breakEvenAmount),
     notes |-> fd.notes,
     media |-> fd.media,
     timeframeScreenshots |-> fd.timeframeScreenshots]

\* The form state fetchTrade sets from a stored trade.
formOf(trade) ==
    [entryPrice |-> toString(trade.entryPrice),
     stopLoss |-> toString(trade.stopLoss),
     takeProfit |-> toString(trade.takeProfit),
     lotSize |-> toString(trade.lotSize),
     stopLossAmount |-> toString(trade.stopLossAmount),
     breakEvenAmount |-> IF trade.breakEvenAmount = Undefined THEN Empty
                         ELSE toString(trade.breakEvenAmount),
     notes |-> trade.notes,
     media |-> trade.media,
     timeframeScreenshots |-> trade.timeframeScreenshots]

\* One row of an MT5 report as handleMT5Import parsed it.
ImportedTrade(entryPrice, stopLoss, takeProfit, volume, profit) ==
    [entryPrice |-> entryPrice, stopLoss |-> stopLoss, takeProfit |-> takeProfit,
     volume |-> volume, profit |-> profit]

\* The record handleImportTrades hands to the store for one report row.
importData(trade) ==
    [entryPrice |-> trade.entryPrice,
     stopLoss |-> OrZero(trade.stopLoss),
     takeProfit |-> OrZero(trade.takeProfit),
     lotSize |-> trade.volume,
     riskRewardRatio |-> Zero,
     stopLossAmount |-> MathAbs(trade.profit),
     breakEvenAmount |-> Undefined,
     notes |-> "Imported from MT5 report",
     media |-> [before |-> <<>>, after |-> <<>>, audioDescription |-> <<>>],
     timeframeScreenshots |-> [daily |-> <<>>]]

\* What the user can type into a numeric input.
Prices == {Empty, Text(10, 10), Text(11, 10), Text(13, 10)}
Amounts == {Empty, Text(1, 1)}
Typed(name) == IF name \in {"entryPrice", "stopLoss", "takeProfit"} THEN Prices ELSE Amounts
NumericFields == {"entryPrice", "stopLoss", "takeProfit", "lotSize", "stopLossAmount",
                  "breakEvenAmount"}

\* The rows an MT5 report can hold: the stop-loss cell may be empty (parsed
\* as 0) and the entry price cell may hold a text that is no number (parsed
\* as NaN).
ReportRows ==
    {ImportedTrade(entry, sl, ParseFloat(13, 10), Number(1), Number(-1)) :
        entry \in {ParseFloat(11, 10), NaN}, sl \in {Zero, Number(1)}}

\* A form filled in completely, and the trade an earlier session stored
\* from it.
FilledForm ==
    [InitialFormData EXCEPT !.entryPrice = Text(11, 10), !.stopLoss = Text(10, 10),
                            !.takeProfit = Text(13, 10), !.lotSize = Text(1, 1),
                            !.stopLossAmount = Text(1, 1)]
EarlierTrades == {tradeData(FilledForm) @@ [id |-> 1, createdAt |-> 0, updatedAt |-> 0]}

FormRoutes == {"/trades/new", "/trades/edit"}

\* One more event of the session.
Handle == ops < MaxSteps /\ ops' = ops + 1 /\ UNCHANGED <<dashboard, formatters, audio>>

alert(message) == [page EXCEPT !.alerts = Append(@, message)]

\* /trades/new is opened: the form mounts with its initial state.
OpenNew ==
    /\ Handle
    /\ page.route = "/trades"
    /\ page' = Page("/trades/new", 0)
    /\ formData' = InitialFormData
    /\ UNCHANGED <<trades, backtests, missedTrades, now, issued, addon, blob, last, flows>>

\* /trades/edit/:id is opened: the form mounts and the effect calls
\* fetchTrade, which awaits getTrade(id).
OpenEdit ==
    /\ Handle
    /\ page.route = "/trades"
    /\ \E id \in Ids :
        /\ page' = Page("/trades/edit", id)
        /\ flows' = flows \cup {[fn |-> "fetchTrade", call |-> ops, id |-> id]}
    /\ formData' = InitialFormData
    /\ UNCHANGED <<trades, backtests, missedTrades, now, issued, addon, blob, last>>

\* getTrade resolves inside fetchTrade: a found trade replaces the whole
\* form state; a form no longer mounted for that id ignores it.
FetchTrade ==
    /\ Handle
    /\ \E f \in flows :
        /\ f.fn = "fetchTrade"
        /\ flows' = flows \ {f}
        /\ LET trade == getTrade(f.id)
           IN  formData' = IF trade # Undefined /\ page.route = "/trades/edit" /\ page.id = f.id
                           THEN formOf(trade) ELSE formData
    /\ UNCHANGED <<trades, backtests, missedTrades, now, issued, addon, blob, last, page>>

\* handleChange: one field of the form takes the typed value.
HandleChange ==
    /\ Handle
    /\ page.route \in FormRoutes
    /\ \E name \in NumericFields : \E value \in Typed(name) :
        formData' = [formData EXCEPT ![name] = value]
    /\ UNCHANGED <<trades, backtests, missedTrades, now, issued, addon, blob, last, page, flows>>

\* handleSubmit of the form: the parsed fields go to updateTrade in edit
\* mode and to addTrade otherwise, then the list is shown.
HandleSubmit ==
    /\ Handle
    /\ page.route \in FormRoutes
    /\ IF page.route = "/trades/edit" /\ page.id # 0
       THEN updateTrade(page.id, tradeData(formData))
       ELSE \E uuid \in Ids \ issued : addTrade(tradeData(formData), uuid)
    /\ page' = Page("/trades", 0)
    /\ UNCHANGED <<formData, flows>>

\* A trade is deleted from the list while a form may be open on it.
DeleteFromList ==
    /\ Handle
    /\ \E id \in Keys(trades) : deleteTrade(id)
    /\ UNCHANGED <<formData, page, flows>>

ImportLoops == {"handleImportTrades", "handleUploadBacktests", "importBacktests"}
Importing == Cardinality({f \in flows : f.fn \in ImportLoops}) < MaxImports

\* handleImportTrades is called from the import dialog of the form with the
\* selected rows of a report and suspends at the addTrade of the first row.
HandleImportTrades ==
    /\ Handle
    /\ page.route \in FormRoutes
    /\ Importing
    /\ \E rows \in ListsUpTo(ReportRows, MaxRows) :
        /\ rows # <<>>
        /\ flows' = flows \cup {[fn |-> "handleImportTrades", call |-> ops, rows |-> rows,
                                 next |-> 1]}
    /\ UNCHANGED <<trades, backtests, missedTrades, now, issued, addon, blob, last, formData, page>>

\* A store operation the storage medium refuses.
rejected(op, err) ==
    /\ last' = Op(op, 0, err)
    /\ UNCHANGED <<trades, backtests, missedTrades, now, issued, addon, blob>>

\* An import loop that catches a rejected addTrade per row and goes on.
ImportTradeSettlesSkip ==
    /\ Handle
    /\ \E f \in flows :
        /\ f.fn = "handleImportTrades"
        /\ \/ \E uuid \in Ids \ issued : addTrade(importData(f.rows[f.next]), uuid)
           \/ rejected("addTrade", "QuotaExceededError")
        /\ IF f.next < Len(f.rows)
           THEN /\ flows' = (flows \ {f}) \cup {[f EXCEPT !.next = @ + 1]}
                /\ page' = page
           ELSE /\ flows' = flows \ {f}
                /\ page' = [Page("/trades", 0) EXCEPT
                              !.alerts = Append(page.alerts, "Successfully imported trades")]
    /\ UNCHANGED formData

\* The pending addTrade of handleImportTrades settles.  Fulfilled: the row
\* is stored and the loop goes on to the next row or, after the last one,
\* to the success alert and the list.  Rejected: the catch block raises
\* the error alert and the call ends.
ImportTradeSettles ==
    /\ Handle
    /\ \E f \in flows :
        /\ f.fn = "handleImportTrades"
        /\ \/ /\ \E uuid \in Ids \ issued : addTrade(importData(f.rows[f.next]), uuid)
              /\ IF f.next < Len(f.rows)
                 THEN /\ flows' = (flows \ {f}) \cup {[f EXCEPT !.next = @ + 1]}
                      /\ page' = page
                 ELSE /\ flows' = flows \ {f}
                      /\ page' = [Page("/trades", 0) EXCEPT
                                    !.alerts = Append(page.alerts, "Successfully imported trades")]
           \/ /\ rejected("addTrade", "QuotaExceededError")
              /\ flows' = flows \ {f}
              /\ page' = alert("Error importing trades")
    /\ UNCHANGED formData

InitForm ==
    /\ trades \in {{}} \cup {{t} : t \in EarlierTrades}
    /\ issued = Keys(trades)
    /\ backtests = {}
    /\ missedTrades = {}
    /\ now = 0
    /\ addon = TRUE
    /\ blob = NoFile
    /\ ops = 0
    /\ last = Op("init", 0, "none")
    /\ IdleDashboard
    /\ IdleFormatters
    /\ IdleAudio
    /\ formData = InitialFormData
    /\ page = Page("/trades", 0)
    /\ flows = {}

NextForm ==
    \/ OpenNew
    \/ OpenEdit
    \/ FetchTrade
    \/ HandleChange
    \/ HandleSubmit
    \/ DeleteFromList
    \/ HandleImportTrades
    \/ ImportTradeSettles

SpecForm == InitForm /\ [][NextForm]_vars

\* The form and the list without the MT5 import.
NextEdit ==
    \/ OpenNew
    \/ OpenEdit
    \/ FetchTrade
    \/ HandleChange
    \/ HandleSubmit
    \/ DeleteFromList

SpecEdit == InitForm /\ [][NextEdit]_vars

\* ------------------------------------------------------ multi-record imports
\* handleUploadBacktests and importBacktests of BacktestGallery.tsx, and
\* handleImportTrades above.

\* The entries a backtest file can hold: the currency pair may be missing.
FileEntries == [description : {"d1"}, currencyPair : {"", "EUR/USD"}]

\* A file that parses to something that is no array.
NotAnArray == <<[description |-> "", currencyPair |-> "not an array"]>>

\* The record importBacktests hands to the store for one entry of the file.
backtestOf(entry) ==
    [description |-> entry.description,
     currencyPair |-> IF entry.currencyPair = "" THEN "Unknown" ELSE entry.currencyPair]

\* handleUploadBacktests is called with the backtests of the upload dialog
\* and suspends at the addBacktest of the first one; with none it goes
\* straight to the success alert.
HandleUploadBacktests ==
    /\ Handle
    /\ page.route = "/backtests"
    /\ Importing
    /\ \E rows \in ListsUpTo({backtestOf(e) : e \in FileEntries}, MaxRows) :
        IF rows = <<>>
        THEN /\ page' = alert("Successfully uploaded backtests")
             /\ flows' = flows
        ELSE /\ flows' = flows \cup {[fn |-> "handleUploadBacktests", call |-> ops,
                                       rows |-> rows, next |-> 1]}
             /\ page' = page
    /\ UNCHANGED <<trades, backtests, missedTrades, now, issued, addon, blob, last, formData>>

\* importBacktests is called with a chosen file: a content that is no array
\* throws into the catch block; an array suspends the call at the
\* addBacktest of its first entry, an empty one goes to the success alert.
ImportBacktests ==
    /\ Handle
    /\ page.route = "/backtests"
    /\ Importing
    /\ \E content \in ListsUpTo(FileEntries, MaxRows) \cup {NotAnArray} :
        IF content = NotAnArray
        THEN /\ page' = alert("Error importing backtests")
             /\ flows' = flows
        ELSE IF content = <<>>
        THEN /\ page' = alert("Successfully imported backtests")
             /\ flows' = flows
        ELSE /\ flows' = flows \cup {[fn |-> "importBacktests", call |-> ops,
                                       rows |-> [i \in DOMAIN content |-> backtestOf(content[i])],
                                       next |-> 1]}
             /\ page' = page
    /\ UNCHANGED <<trades, backtests, missedTrades, now, issued, addon, blob, last, formData>>

Uploaded(fn) == IF fn = "importBacktests" THEN "Successfully imported backtests"
                ELSE "Successfully uploaded backtests"
UploadFailed(fn) == IF fn = "importBacktests" THEN "Error importing backtests"
                    ELSE "Error uploading backtests"

\* The pending addBacktest of either loop settles.  Fulfilled: the backtest
\* is stored and the loop goes on or, after the last one, reloads the
\* gallery and raises the success alert.  Rejected: the catch block raises
\* the error alert and the call ends.
BacktestSettles ==
    /\ Handle
    /\ \E f \in flows :
        /\ f.fn \in {"handleUploadBacktests", "importBacktests"}
        /\ \/ /\ \E uuid \in Ids \ issued : addBacktest(f.rows[f.next], uuid)
              /\ IF f.next < Len(f.rows)
                 THEN /\ flows' = (flows \ {f}) \cup {[f EXCEPT !.next = @ + 1]}
                      /\ page' = page
                 ELSE /\ flows' = flows \ {f}
                      /\ page' = alert(Uploaded(f.fn))
           \/ /\ rejected("addBacktest", "QuotaExceededError")
              /\ flows' = flows \ {f}
              /\ page' = alert(UploadFailed(f.fn))
    /\ UNCHANGED formData

InitImport ==
    /\ IdleStore
    /\ IdleDashboard
    /\ IdleFormatters
    /\ IdleAudio
    /\ formData = InitialFormData
    /\ page \in {Page("/trades/new", 0), Page("/backtests", 0)}
    /\ flows = {}

NextImport ==
    \/ HandleImportTrades
    \/ ImportTradeSettles
    \/ HandleUploadBacktests
    \/ ImportBacktests
    \/ BacktestSettles

SpecImport == InitImport /\ [][NextImport]_vars

\* ------------------------------------------------------------ media uploads
\* handleFileUpload, handleTimeframeScreenshot and handleRemoveMedia of the
\* trade form.  Every one of them writes the form state with a functional
\* update, setFormData(prev => ...), which React applies to the state of
\* the moment it runs.
MaxFiles == 2       \* most files one file input hands over at once
MaxUploads == 2     \* most uploads in flight at once

Files == {1, 2}     \* the files the user can choose
MediaTypes == {"before", "after"}

\* fileToDataUrl of a file that can be read: the data URL of its content.
DataUrl(file) == <<"data:", file>>

\* An update that replaces the list by the new files.
replaceMedia(prev, type, fileUrls) == [prev EXCEPT !.media[type] = fileUrls]

\* The update of handleFileUpload: the new files go after those of prev.
appendMedia(prev, type, fileUrls) == [prev EXCEPT !.media[type] = @ \o fileUrls]

\* The update of handleRemoveMedia: the list without its index-th entry.
removeMedia(prev, type, index) ==
    [prev EXCEPT !.media[type] = SubSeq(@, 1, index - 1) \o SubSeq(@, index + 1, Len(@))]

Uploading == Cardinality({f \in flows : f.fn \in {"handleFileUpload", "handleTimeframeScreenshot"}})

\* handleFileUpload is called with the files of an input (none: it returns)
\* and suspends at the fileToDataUrl of the first file.
HandleFileUpload ==
    /\ Handle
    /\ page.route \in FormRoutes
    /\ Uploading < MaxUploads
    /\ \E files \in ListsUpTo(Files, MaxFiles), type \in MediaTypes :
        flows' = IF files = <<>> THEN flows
                 ELSE flows \cup {[fn |-> "handleFileUpload", call |-> ops, type |-> type,
                                   files |-> files, next |-> 1, fileUrls |-> <<>>]}
    /\ UNCHANGED <<trades, backtests, missedTrades, now, issued, addon, blob, last, formData, page>>

\* The pending fileToDataUrl of handleFileUpload settles: a data URL is
\* pushed, a rejection is logged and skipped.  After the last file the list
\* collected is appended to the media list of the form.
FileConverted ==
    /\ Handle
    /\ \E f \in flows : \E converted \in BOOLEAN :
        /\ f.fn = "handleFileUpload"
        /\ LET fileUrls == IF converted THEN Append(f.fileUrls, DataUrl(f.files[f.next]))
                            ELSE f.fileUrls
           IN  IF f.next < Len(f.files)
               THEN /\ flows' = (flows \ {f}) \cup
                                   {[f EXCEPT !.next = @ + 1, !.fileUrls = fileUrls]}
                    /\ formData' = formData
               ELSE /\ flows' = flows \ {f}
                    /\ formData' = appendMedia(formData, f.type, fileUrls)
    /\ UNCHANGED <<trades, backtests, missedTrades, now, issued, addon, blob, last, page>>

\* handleTimeframeScreenshot is called with a file and suspends at its
\* fileToDataUrl.
HandleTimeframeScreenshot ==
    /\ Handle
    /\ page.route \in FormRoutes
    /\ Uploading < MaxUploads
    /\ \E file \in Files :
        flows' = flows \cup {[fn |-> "handleTimeframeScreenshot", call |-> ops, file |-> file]}
    /\ UNCHANGED <<trades, backtests, missedTrades, now, issued, addon, blob, last, formData, page>>

\* The pending fileToDataUrl of handleTimeframeScreenshot settles: the data
\* URL is set under the timeframe, a rejection is logged.
ScreenshotConverted ==
    /\ Handle
    /\ \E f \in flows : \E converted \in BOOLEAN :
        /\ f.fn = "handleTimeframeScreenshot"
        /\ flows' = flows \ {f}
        /\ formData' = IF converted
                        THEN [formData EXCEPT !.timeframeScreenshots.daily = DataUrl(f.file)]
                        ELSE formData
    /\ UNCHANGED <<trades, backtests, missedTrades, now, issued, addon, blob, last, page>>

\* handleRemoveMedia: the entry shown at an index of a media list is removed.
HandleRemoveMedia ==
    /\ Handle
    /\ page.route \in FormRoutes
    /\ \E type \in MediaTypes : \E index \in DOMAIN formData.media[type] :
        formData' = removeMedia(formData, type, index)
    /\ UNCHANGED <<trades, backtests, missedTrades, now, issued, addon, blob, last, page, flows>>

\* handleChange on the notes of the form.
HandleChangeNotes ==
    /\ Handle
    /\ page.route \in FormRoutes
    /\ \E value \in NotesValues : formData' = [formData EXCEPT !.notes = value]
    /\ UNCHANGED <<trades, backtests, missedTrades, now, issued, addon, blob, last, page, flows>>

\* The form is open, with no picture yet or with one uploaded before.
InitMedia ==
    /\ IdleStore
    /\ IdleDashboard
    /\ IdleFormatters
    /\ IdleAudio
    /\ formData \in {InitialFormData, appendMedia(InitialFormData, "before", <<DataUrl(1)>>)}
    /\ page = Page("/trades/new", 0)
    /\ flows = {}

NextMedia ==
    \/ HandleFileUpload
    \/ FileConverted
    \/ HandleTimeframeScreenshot
    \/ ScreenshotConverted
    \/ HandleRemoveMedia
    \/ HandleChangeNotes

SpecMedia == InitMedia /\ [][NextMedia]_vars

\* ----------------------------------------------------------- audio recording
\* startRecording / endRecording of the trade form (the missed-trade form
\* has the same two handlers) and recordAudio / stopRecording.  A
\* MediaRecorder is a member of recorders with its state; the form refers
\* to one by its id.
Recorder(id) == [null |-> FALSE, id |-> id]
Live == {r \in recorders : r.state = "recording"}

\* One more event of the session that may touch the recorder state.
HandleAudio == ops < MaxSteps /\ ops' = ops + 1 /\ UNCHANGED <<dashboard, formatters>>

\* The record button is pressed while isRecording is false: startRecording
\* is called and suspends at recordAudio(), which waits for getUserMedia.
StartRecording ==
    /\ HandleAudio
    /\ page.route \in FormRoutes
    /\ ~isRecording
    /\ flows' = flows \cup {[fn |-> "startRecording", call |-> ops]}
    /\ UNCHANGED <<trades, backtests, missedTrades, now, issued, addon, blob, last,
                   formData, page, audio>>

\* getUserMedia settles.  Fulfilled: recordAudio creates a MediaRecorder on
\* the stream, starts it and resolves to it, and startRecording stores it in
\* the form and sets isRecording.  Rejected: the catch block raises the
\* microphone alert.
RecordAudioSettles ==
    /\ HandleAudio
    /\ \E f \in flows :
        /\ f.fn = "startRecording"
        /\ flows' = flows \ {f}
        /\ \/ LET id == Cardinality(recorders) + 1
              IN  /\ recorders' = recorders \cup {[id |-> id, state |-> "recording"]}
                  /\ mediaRecorder' = Recorder(id)
                  /\ isRecording' = TRUE
                  /\ page' = page
           \/ /\ page' = alert("Error accessing microphone")
              /\ UNCHANGED audio
    /\ UNCHANGED <<trades, backtests, missedTrades, now, issued, addon, blob, last, formData>>

\* stopRecording(mediaRecorder) as endRecording calls it.  A recorder that is
\* recording is stopped and the call suspends until its data is read; on a
\* recorder already inactive stop() throws, the promise is rejected, and the
\* catch block leads on to setIsRecording(false) and setMediaRecorder(null).
stopRecording(recorder) ==
    IF [id |-> recorder.id, state |-> "recording"] \in recorders
    THEN /\ recorders' = (recorders \ {[id |-> recorder.id, state |-> "recording"]})
                            \cup {[id |-> recorder.id, state |-> "inactive"]}
         /\ flows' = flows \cup {[fn |-> "endRecording", call |-> ops, id |-> recorder.id]}
         /\ UNCHANGED <<isRecording, mediaRecorder>>
    ELSE /\ recorders' = recorders
         /\ flows' = flows
         /\ isRecording' = FALSE
         /\ mediaRecorder' = Null

\* The record button is pressed while isRecording is true: endRecording is
\* called and, when the form holds a recorder, stops it.
EndRecording ==
    /\ HandleAudio
    /\ page.route \in FormRoutes
    /\ isRecording
    /\ IF mediaRecorder # Null
       THEN stopRecording(mediaRecorder)
       ELSE UNCHANGED <<flows, audio>>
    /\ UNCHANGED <<trades, backtests, missedTrades, now, issued, addon, blob, last,
                   formData, page>>

\* The recording has been read into a data URL: endRecording stores it in
\* the form, clears isRecording and forgets the recorder.
StopRecordingSettles ==
    /\ HandleAudio
    /\ \E f \in flows :
        /\ f.fn = "endRecording"
        /\ flows' = flows \ {f}
        /\ formData' = [formData EXCEPT !.media.audioDescription = <<"data:audio", f.id>>]
    /\ isRecording' = FALSE
    /\ mediaRecorder' = Null
    /\ UNCHANGED <<trades, backtests, missedTrades, now, issued, addon, blob, last,
                   page, recorders>>

InitAudio ==
    /\ IdleStore
    /\ IdleDashboard
    /\ IdleFormatters
    /\ IdleAudio
    /\ formData = InitialFormData
    /\ page \in {Page("/trades/new", 0), Page("/trades/edit", 1)}
    /\ flows = {}

NextAudio ==
    \/ StartRecording
    \/ RecordAudioSettles
    \/ EndRecording
    \/ StopRecordingSettles
    \/ HandleChangeNotes

SpecAudio == InitAudio /\ [][NextAudio]_vars

\* ================================================================ properties
AllKeys == Keys(trades) \cup Keys(backtests) \cup Keys(missedTrades)

\* C1: an update (updateTrade, updateMissedTrade, updateBacktest) of an id
\* that is not in its table ends with a NotFound error for the caller.
\* (The table is the same before and after such an update, so the id is
\* absent before exactly when it is absent after.)
C1_UpdateAbsentFailsNotFound ==
    /\ (last.op = "updateTrade" /\ last.id \notin Keys(trades)) => last.err = "NotFound"
    /\ (last.op = "updateMissedTrade" /\ last.id \notin Keys(missedTrades)) => last.err = "NotFound"
    /\ (last.op = "updateBacktest" /\ last.id \notin Keys(backtests)) => last.err = "NotFound"

\* What update followed by getById must show: the patch values in the patched
\* fields, every other field as before, updatedAt not earlier than before,
\* id and createdAt untouched.
Merged(old, new, patch) ==
    /\ new # Undefined
    /\ DOMAIN new = DOMAIN old
    /\ \A f \in DOMAIN patch : new[f] = patch[f]
    /\ \A f \in DOMAIN old \ (DOMAIN patch \cup {"updatedAt"}) : new[f] = old[f]
    /\ new.updatedAt >= old.updatedAt
    /\ new.id = old.id
    /\ new.createdAt = old.createdAt

\* C2: for every stored trade or missed trade and every patch, update(id, patch)
\* followed by getById(id) returns the record with the patch merged in, the
\* other fields as before, updatedAt >= the previous updatedAt, and id and
\* createdAt unchanged.
C2_UpdateMerges ==
    [][/\ (last'.op = "updateTrade" /\ last'.id \in Keys(trades)) =>
            \A patch \in Patches(TradeFields) :
                updateTrade(last'.id, patch)
                    => Merged(getTrade(last'.id), TableGet(trades', last'.id), patch)
       /\ (last'.op = "updateMissedTrade" /\ last'.id \in Keys(missedTrades)) =>
            \A patch \in Patches(MissedTradeFields) :
                updateMissedTrade(last'.id, patch)
                    => Merged(getMissedTrade(last'.id), TableGet(missedTrades', last'.id), patch)]_vars

\* C2 witness: a trade was updated at a later instant than it was created and
\* sits beside another trade.
C2_Witness ==
    /\ last.op = "updateTrade"
    /\ last.err = "none"
    /\ Cardinality(trades) = 2
    /\ \E r \in trades : r.id = last.id /\ r.updatedAt > r.createdAt

\* C3: deleting an id that is not in the table raises no error and leaves all
\* three tables unchanged; deleting an id again after deleting it changes
\* nothing more.
C3_DeleteIdempotent ==
    [][/\ (last'.op = "deleteTrade" /\ deleteTrade(last'.id)) =>
            /\ last'.id \notin Keys(trades) => (last'.err = "none" /\ store' = store)
            /\ TableDelete(trades', last'.id) = [err |-> "none", table |-> trades']
       /\ (last'.op = "deleteMissedTrade" /\ deleteMissedTrade(last'.id)) =>
            /\ last'.id \notin Keys(missedTrades) => (last'.err = "none" /\ store' = store)
            /\ TableDelete(missedTrades', last'.id) = [err |-> "none", table |-> missedTrades']
       /\ (last'.op = "deleteBacktest" /\ deleteBacktest(last'.id)) =>
            /\ last'.id \notin Keys(backtests) => (last'.err = "none" /\ store' = store)
            /\ TableDelete(backtests', last'.id) = [err |-> "none", table |-> backtests']]_vars

\* C3 witness: deleteTrade of an id that never existed ran against a table
\* that holds a trade.
C3_Witness ==
    /\ last.op = "deleteTrade"
    /\ last.id \notin issued
    /\ last.err = "none"
    /\ trades # {}

\* C4: create stores the record under a fresh id that no record of the store
\* has, with createdAt = updatedAt = now (createdAt only for a backtest), and
\* returns the id under which getById then finds exactly that record.
C4_CreateStoresUnderReturnedId ==
    [][/\ (last'.op = "addTrade" /\ issued' # issued) =>
            \A trade \in Inputs(TradeFields) :
                (\E uuid \in issued' \ issued : addTrade(trade, uuid)) =>
                    /\ last'.err = "none"
                    /\ last'.id \notin AllKeys
                    /\ TableGet(trades', last'.id) =
                         trade @@ [id |-> last'.id, createdAt |-> now, updatedAt |-> now]
       /\ (last'.op = "addMissedTrade" /\ issued' # issued) =>
            \A trade \in Inputs(MissedTradeFields) :
                (\E uuid \in issued' \ issued : addMissedTrade(trade, uuid)) =>
                    /\ last'.err = "none"
                    /\ last'.id \notin AllKeys
                    /\ TableGet(missedTrades', last'.id) =
                         trade @@ [id |-> last'.id, createdAt |-> now, updatedAt |-> now]
       /\ (last'.op = "addBacktest" /\ issued' # issued) =>
            \A backtest \in Inputs(BacktestFields) :
                (\E uuid \in issued' \ issued : addBacktest(backtest, uuid)) =>
                    /\ last'.err = "none"
                    /\ last'.id \notin AllKeys
                    /\ TableGet(backtests', last'.id) =
                         backtest @@ [id |-> last'.id, createdAt |-> now]]_vars

\* C4 witness: a trade was created in a store that already held another one,
\* and the returned id retrieves it.
C4_Witness ==
    /\ last.op = "addTrade"
    /\ last.err = "none"
    /\ Cardinality(trades) = 2
    /\ getTrade(last.id) # Undefined
    /\ getTrade(last.id).createdAt = now
\* The rows an export file holds, as records again.
FileRows(file) ==
    <<{DecodeRow(r) : r \in file.trades},
      {DecodeRow(r) : r \in file.backtests},
      {DecodeRow(r) : r \in file.missedTrades}>>

\* C5: round trip: importing the file just exported from the store completes
\* and leaves a store in which every record present before the export is
\* retrievable with the same id and field values.
C5_RoundTripRestores ==
    [][(last'.op = "import" /\ blob # NoFile /\ blob = exportDB
            /\ handleImport("exported", TRUE))
          => (last'.err = "none" /\ store' = store)]_vars

C7_ImportReplacesStore ==
    (last.op = "import" /\ last.err = "none") => store = FileRows(blob)

\* C8: getAllTrades and getAllMissedTrades list the records in insertion order:
\* a record created at an earlier instant never follows one created later.
InCreationOrder(list) ==
    \A i, j \in 1..Len(list) : i < j => list[i].createdAt <= list[j].createdAt

C8_GetAllInInsertionOrder ==
    /\ InCreationOrder(getAllTrades)
    /\ InCreationOrder(getAllMissedTrades)

\* C9: getAllBacktests lists every stored backtest, newest created first
\* (createdAt never increases along the list), and updateBacktest does not
\* change that order.
NewestFirst(list) ==
    \A i, j \in 1..Len(list) : i < j => list[i].createdAt >= list[j].createdAt

IdsOf(list) == [i \in 1..Len(list) |-> list[i].id]

C9_BacktestsNewestFirst ==
    /\ [](/\ NewestFirst(getAllBacktests)
          /\ Len(getAllBacktests) = Cardinality(backtests)
          /\ {getAllBacktests[i] : i \in 1..Len(getAllBacktests)} = backtests)
    /\ [][(last'.op = "updateBacktest" /\ \E patch \in Patches(BacktestFields) :
                                            updateBacktest(last'.id, patch))
             => IdsOf(getAllBacktests') = IdsOf(getAllBacktests)]_vars

\* C9 witness: a backtest was updated while two backtests created at different
\* instants were stored, the newer one under the smaller id.
C9_Witness ==
    /\ last.op = "updateBacktest"
    /\ last.id \in Keys(backtests)
    /\ Len(getAllBacktests) = 2
    /\ getAllBacktests[1].createdAt > getAllBacktests[2].createdAt
    /\ getAllBacktests[1].id < getAllBacktests[2].id

\* C10: in every reachable store every trade and missed trade has
\* createdAt <= updatedAt, and no two records of one kind share an id.
UniqueIds(table) == \A r, s \in table : r.id = s.id => r = s

C10_TimestampsOrderedIdsUnique ==
    /\ \A r \in trades \cup missedTrades : r.createdAt <= r.updatedAt
    /\ UniqueIds(trades)
    /\ UniqueIds(missedTrades)
    /\ UniqueIds(backtests)

\* C10 witness: a successful import has put a deleted trade back into the store.
C10_Witness ==
    /\ last.op = "import"
    /\ last.err = "none"
    /\ trades # {}
    /\ Keys(trades) \subseteq issued

\* ------------------------------------------------- statistics: C11 .. C19
Called == stats # NotCalled
Returned == Called /\ ~stats.threw

\* The positions of the input trades that satisfy a condition.
WithOutcome(o) == {i \in 1..Len(input) : input[i].outcome = o}
WithEntryType(t) == {i \in 1..Len(input) : input[i].entryType = t}

\* C11: calculateStats returns a TradeStats value without throwing for every
\* collection of trades whose entryType is one of the six EntryType values and
\* whose outcome is win, loss or breakeven.
C11_CalculateStatsNeverThrows ==
    Called => ~stats.threw

\* C12: for an empty collection calculateStats returns totalTrades = 0,
\* wins = losses = breakeven = 0, winRate = averageRR = profitFactor = 0, none
\* of them NaN or Infinity, and a per-entry-type table with an all-zero row for
\* every entry type of the EntryType taxonomy.
C12_EmptyInputZeroedStats ==
    (Called /\ input = <<>>) =>
        /\ ~stats.threw
        /\ stats.totalTrades = 0
        /\ stats.wins = 0 /\ stats.losses = 0 /\ stats.breakeven = 0
        /\ stats.winRate = Zero /\ stats.averageRR = Zero /\ stats.profitFactor = Zero
        /\ \A t \in EntryTypes :
              t \in DOMAIN stats.byEntryType /\ stats.byEntryType[t] = ZeroRow

\* C13: for every non-empty collection calculateStats returns
\* wins + losses + breakeven = totalTrades, and totalTrades is the number of
\* input trades.
C13_OutcomeCountsAddUp ==
    (Called /\ Len(input) > 0) =>
        /\ ~stats.threw
        /\ stats.wins + stats.losses + stats.breakeven = stats.totalTrades
        /\ stats.totalTrades = Len(input)

\* C14: profit is accumulated for a winning trade and loss for a losing trade
\* only when the amount is positive, so that profitFactor is never negative,
\* winning sell trades that exit below their entry included.
C14_ProfitFactorNeverNegative ==
    Returned => stats.profitFactor.num >= 0

\* The sums of (exitPrice - entryPrice) x lotSize over the winning trades and
\* of (entryPrice - exitPrice) x lotSize over the losing trades among the
\* first i input trades.
RECURSIVE TotalProfit(_)
TotalProfit(i) ==
    IF i = 0 THEN Zero
    ELSE IF input[i].outcome = "win"
         THEN Add(TotalProfit(i - 1),
                  Mul(Sub(input[i].exitPrice, input[i].entryPrice), input[i].lotSize))
         ELSE TotalProfit(i - 1)

RECURSIVE TotalLoss(_)
TotalLoss(i) ==
    IF i = 0 THEN Zero
    ELSE IF input[i].outcome = "loss"
         THEN Add(TotalLoss(i - 1),
                  Mul(Sub(input[i].entryPrice, input[i].exitPrice), input[i].lotSize))
         ELSE TotalLoss(i - 1)

\* C15: profitFactor is 0 whenever the collection has no losing trade, whatever
\* the number and size of the winning trades; in general it is
\* totalProfit / totalLoss if totalLoss > 0 and 0 otherwise.
C15_ProfitFactorFormula ==
    Called =>
        /\ ~stats.threw
        /\ WithOutcome("loss") = {} => stats.profitFactor = Zero
        /\ stats.profitFactor =
              IF Positive(TotalLoss(Len(input)))
              THEN Div(TotalProfit(Len(input)), TotalLoss(Len(input)))
              ELSE Zero

\* |exitPrice - entryPrice| x volume of the i-th input trade.
Magnitude(i) ==
    LET diff == Sub(input[i].exitPrice, input[i].entryPrice)
    IN  Mul([diff EXCEPT !.num = Abs(@)], input[i].lotSize)

\* C16: for two trades, one win and one loss, of equal (and non-zero) profit
\* and loss magnitude, calculateStats returns profitFactor = 1 whatever the
\* direction of each trade.
C16_EqualMagnitudesGiveOne ==
    (/\ Returned
     /\ Len(input) = 2
     /\ Cardinality(WithOutcome("win")) = 1
     /\ Cardinality(WithOutcome("loss")) = 1
     /\ Finite(Magnitude(1)) /\ Positive(Magnitude(1))
     /\ Magnitude(1) = Magnitude(2))
        => stats.profitFactor = Number(1)

\* The sum of riskRewardRatio over the first i input trades.
RECURSIVE TotalRR(_)
TotalRR(i) ==
    IF i = 0 THEN Zero ELSE Add(TotalRR(i - 1), input[i].riskRewardRatio)

\* C17: for every non-empty collection winRate = wins / totalTrades x 100 and
\* averageRR = (sum of riskRewardRatio) / totalTrades; a single winning
\* '2 touch' trade yields winRate 100 overall and in its entry-type row.
C17_WinRateAndAverageRR ==
    (Called /\ Len(input) > 0) =>
        /\ ~stats.threw
        /\ stats.winRate =
              Mul(Div(Number(Cardinality(WithOutcome("win"))), Number(Len(input))),
                  Number(100))
        /\ stats.averageRR = Div(TotalRR(Len(input)), Number(Len(input)))
        /\ (Len(input) = 1 /\ input[1].outcome = "win" /\ input[1].entryType = "2 touch") =>
              /\ stats.winRate = Number(100)
              /\ stats.byEntryType["2 touch"].winRate = Number(100)

\* The trades of a list in the order p, a permutation of its positions.
Permuted(tradeList, p) == [i \in 1..Len(tradeList) |-> tradeList[p[i]]]
Orderings(tradeList) ==
    {Permuted(tradeList, p) : p \in Permutations(1..Len(tradeList))}

\* C18: calculateStats is order-independent: for every permutation of the
\* collection the returned TradeStats, all counts, rates and per-entry-type
\* rows, are identical.
C18_OrderIndependent ==
    Called => \A other \in Orderings(input) : calculateStats(other) = stats

\* C19: every per-entry-type row has total = wins + losses + breakeven = the
\* number of input trades of that entry type and winRate = wins / total x 100
\* if total > 0, else 0; an entry type with no trades reports all zeros.
C19_EntryTypeRows ==
    Called =>
        /\ ~stats.threw
        /\ \A t \in EntryTypes :
              /\ t \in DOMAIN stats.byEntryType
              /\ LET row == stats.byEntryType[t]
                 IN  /\ row.total = row.wins + row.losses + row.breakeven
                     /\ row.total = Cardinality(WithEntryType(t))
                     /\ row.winRate = IF row.total > 0
                                      THEN Mul(Div(Number(row.wins), Number(row.total)),
                                               Number(100))
                                      ELSE Zero
                     /\ WithEntryType(t) = {} => row = ZeroRow

\* ----------------------------------------------------------- chart data: C20
\* The calendar month k months before the month of a date.
MonthsBefore(date, k) ==
    LET m == date.month - k
    IN  [month |-> MonthNames[(IF m < 0 THEN m + 12 ELSE m) + 1],
         year |-> IF m < 0 THEN date.year - 1 ELSE date.year]

\* C20: on every current date the by-month series has exactly six labels, the
\* six distinct consecutive calendar months that end at the current month,
\* oldest first.
C20_SixConsecutiveMonths ==
    chart # NotCalled =>
        /\ Len(chart.byMonth.labels) = 6
        /\ \A k \in 1..6 : chart.byMonth.labels[k] = MonthsBefore(today, 6 - k)

\* ---------------------------------------------------- chart data: C21, C22
Charted == chart # NotCalled

\* The positions of the input trades of an outcome entered in the month and
\* year a label names.
EnteredIn(label, o) ==
    {i \in 1..Len(input) :
        /\ input[i].outcome = o
        /\ input[i].entryDate.year = label.year
        /\ MonthNames[input[i].entryDate.month + 1] = label.month}

InWindow(i) ==
    \E k \in 1..Len(chart.byMonth.labels) :
        /\ input[i].entryDate.year = chart.byMonth.labels[k].year
        /\ MonthNames[input[i].entryDate.month + 1] = chart.byMonth.labels[k].month

\* C21: for each month label and each outcome the reported value is the number
\* of input trades of that outcome entered in that month and year (0 when
\* there is none), so a trade entered outside the window is in no bucket.
C21_MonthBuckets ==
    Charted =>
        \A k \in 1..Len(chart.byMonth.labels) :
            LET label == chart.byMonth.labels[k]
            IN  /\ chart.byMonth.wins[k] = Cardinality(EnteredIn(label, "win"))
                /\ chart.byMonth.losses[k] = Cardinality(EnteredIn(label, "loss"))
                /\ chart.byMonth.breakeven[k] = Cardinality(EnteredIn(label, "breakeven"))

\* One trade is counted in a bucket while another, entered outside the
\* window, is in none, and some bucket is empty.
C21_Witness ==
    /\ Charted
    /\ \E i, j \in 1..Len(input) : InWindow(i) /\ ~InWindow(j)
    /\ \E k \in 1..6 :
          chart.byMonth.wins[k] + chart.byMonth.losses[k] + chart.byMonth.breakeven[k] > 0
    /\ \E k \in 1..6 :
          chart.byMonth.wins[k] + chart.byMonth.losses[k] + chart.byMonth.breakeven[k] = 0

\* C22: the by-entry-type series has one label for exactly each entry type in
\* the input, the values of a label are the numbers of input trades of that
\* entry type with each outcome, and they equal the counts calculateStats
\* reports for that entry type.
C22_EntryTypeSeries ==
    (Charted /\ Called) =>
        LET series == chart.byEntryType
            at == 1..Len(series.labels)
        IN  /\ {series.labels[k] : k \in at} = {input[i].entryType : i \in 1..Len(input)}
            /\ \A k, l \in at : series.labels[k] = series.labels[l] => k = l
            /\ \A k \in at :
                  LET of(o) == Cardinality({i \in WithEntryType(series.labels[k]) :
                                               input[i].outcome = o})
                  IN  /\ series.wins[k] = of("win")
                      /\ series.losses[k] = of("loss")
                      /\ series.breakeven[k] = of("breakeven")
            /\ ~stats.threw
            /\ \A k \in at :
                  /\ series.labels[k] \in DOMAIN stats.byEntryType
                  /\ series.wins[k] = stats.byEntryType[series.labels[k]].wins
                  /\ series.losses[k] = stats.byEntryType[series.labels[k]].losses
                  /\ series.breakeven[k] = stats.byEntryType[series.labels[k]].breakeven

\* ------------------------------------------------------ formatters: C23, C24
\* C23: calculatePips returns |priceDiff| x 100 when the pair contains "JPY"
\* and |priceDiff| x 10000 otherwise, for either sign and every pair string
\* (0.0050 on EUR/USD and 0.50 on USD/JPY both give 50), and never fails.
C23_CalculatePips ==
    (result # NotCalled /\ args.fn = "calculatePips") =>
        LET diff == args.priceDiff
            hasJPY == \E i \in 1..Len(args.pair) :
                         /\ i + 2 <= Len(args.pair)
                         /\ args.pair[i] = "J" /\ args.pair[i + 1] = "P" /\ args.pair[i + 2] = "Y"
            scale == IF hasJPY THEN 100 ELSE 10000
        IN  /\ Finite(result.value)
            /\ result.value = Fl(Ratio(Abs(diff.num) * scale, diff.den))
            /\ (MathAbs(diff) = ParseFloat(5, 1000) /\ ~hasJPY) => result.value = Number(50)
            /\ (MathAbs(diff) = ParseFloat(5, 10) /\ hasJPY) => result.value = Number(50)

\* A negative price difference is converted on a JPY pair and on another one.
C23_Witness ==
    /\ result # NotCalled
    /\ args.fn = "calculatePips"
    /\ args.priceDiff = ParseFloat(-5, 1000)
    /\ args.pair = <<"E", "U", "R", "/", "U", "S", "D">>
    /\ result.value = Number(50)

\* x < n for a number x and an integer n; false for NaN.
Below(x, n) == Finite(x) /\ x.num < n * x.den

\* C24: in each copy of formatPips and for the same pair, every pips value
\* >= 100 is rendered with strictly fewer decimal places than every pips
\* value < 10.
C24_FewerDecimalsWhenLarge ==
    (result # NotCalled /\ args.fn = "formatPips" /\ AtLeast(args.pips, 100)) =>
        \A small \in PipsValues :
            Below(small, 10) =>
                result.value.decimals <
                    (IF result.copy = 1 THEN formatPips(small, args.pair)
                                        ELSE formatPips2(small, args.pair)).decimals

\* ------------------------------------------------------- trade form: C25 .. C27
\* The risk:reward ratio the stored prices of a trade give: reward / risk
\* when stop-loss and take-profit are there and the risk is positive, else 0.
RiskReward(t) ==
    LET risk == MathAbs(Sub(t.entryPrice, t.stopLoss))
        reward == MathAbs(Sub(t.takeProfit, t.entryPrice))
    IN  IF Truthy(t.stopLoss) /\ Truthy(t.takeProfit) /\ Positive(risk)
        THEN Div(reward, risk) ELSE Zero

\* C25: every stored trade, however it came into the store (form submission,
\* edit, MT5 import), has riskRewardRatio = |takeProfit - entryPrice| /
\* |entryPrice - stopLoss| of its own stored prices when both legs are there
\* and the risk is positive, and 0 otherwise.
C25_StoredRiskReward == \A t \in trades : t.riskRewardRatio = RiskReward(t)

IsNaN(x) == x # Undefined /\ x.den = 0 /\ x.num = 0

\* C26: no stored trade has NaN in a price, volume or amount field, whatever
\* was submitted.
C26_NoStoredNaN ==
    \A t \in trades : \A f \in NumericFields : ~IsNaN(t[f])

\* C27: an updateTrade never changes the set of stored ids; in particular an
\* id deleted between the getTrade and the updateTrade of an edit stays absent.
C27_UpdateNeverCreates ==
    [][last'.op = "updateTrade" => Keys(trades') = Keys(trades)]_vars

\* An edit form was filled by getTrade, the trade was deleted, and the form
\* was submitted: updateTrade ran on the absent id.
C27_Witness ==
    /\ last.op = "updateTrade"
    /\ last.id \notin Keys(trades)
    /\ \E t \in EarlierTrades : t.id = last.id /\ formData = formOf(t)

\* ------------------------------------------------- multi-record imports: C28
ErrorAlert(fn) == IF fn = "handleImportTrades" THEN "Error importing trades" ELSE UploadFailed(fn)
Refused == last.err = "QuotaExceededError"

\* C28: when an addTrade / addBacktest of an import loop is rejected, the
\* records stored before stay stored and none is taken away, the loop ends
\* there (no later record of the call is added), the error alert of the
\* handler is appended, and neither the success alert nor the navigation
\* happens.
C28_ImportNotAtomic ==
    [][\A f \in flows :
          f \notin flows' /\ f.fn \in ImportLoops /\ last'.err = "QuotaExceededError" =>
             /\ store' = store
             /\ \A g \in flows' : g.call # f.call
             /\ page'.alerts = Append(page.alerts, ErrorAlert(f.fn))
             /\ page'.route = page.route]_vars

\* The second addTrade of an import of two rows was rejected: the first row
\* is in the store, the call is over, and only the error alert was raised.
C28_Witness ==
    /\ Refused
    /\ last.op = "addTrade"
    /\ Cardinality(trades) = 1
    /\ flows = {}
    /\ page.alerts = <<"Error importing trades">>
    /\ page.route = "/trades/new"

\* ------------------------------------------------------------ media uploads: C29
Range(list) == {list[i] : i \in DOMAIN list}

\* The call f is over in the next state.
Completes(f) == f \in flows /\ \A g \in flows' : g.call # f.call

\* C29: no update of the form is lost.  When an upload completes, the media
\* list of its type is the list of that moment (with whatever other calls
\* and removals made of it meanwhile) followed by the files the call
\* converted, and every other part of the form is as it was at that moment;
\* a screenshot, a removal and a field change likewise alter only their own
\* part of the form.
C29_NoLostUpdate ==
    [][formData' # formData =>
         \/ \E f \in flows :
               /\ f.fn = "handleFileUpload"
               /\ Completes(f)
               /\ \E urls \in {f.fileUrls, Append(f.fileUrls, DataUrl(f.files[f.next]))} :
                     formData' = [formData EXCEPT !.media[f.type] = formData.media[f.type] \o urls]
         \/ \E f \in flows :
               /\ f.fn = "handleTimeframeScreenshot"
               /\ Completes(f)
               /\ formData' = [formData EXCEPT !.timeframeScreenshots.daily = DataUrl(f.file)]
         \/ /\ flows' = flows
            /\ \E type \in MediaTypes :
                  /\ Len(formData'.media[type]) = Len(formData.media[type]) - 1
                  /\ formData' = [formData EXCEPT !.media[type] = formData'.media[type]]
         \/ /\ flows' = flows
            /\ formData' = [formData EXCEPT !.notes = formData'.notes]]_vars

\* Two uploads overlapped: one, called after the first event of the session,
\* has put its file into a media list of the form, and the upload called at the first event is still in flight.
C29_Witness ==
    /\ \E f \in flows : f.fn = "handleFileUpload" /\ f.call = 0 /\ f.next = 2
    /\ \E type \in MediaTypes : DataUrl(2) \in Range(formData.media[type])

\* --------------------------------------------------------- audio recording: C30
\* C30: at most one MediaRecorder is recording, every recorder that is
\* recording is the one the form holds (so that endRecording can stop it),
\* and isRecording is true exactly when the form holds a recorder.
C30_OneRecorderNoneLeaked ==
    /\ Cardinality(Live) <= 1
    /\ \A r \in Live : mediaRecorder = Recorder(r.id)
    /\ isRecording <=> mediaRecorder # Null

====
